---- MODULE Spec2Model ----
(***************************************************************************)
(* Warbler (flask-warbler): the request handlers of app.py over the        *)
(* relational store of models.py (users, messages, follows, likes) and the *)
(* per-browser Flask session.  One action per route handler; a handler is  *)
(* one transaction (the request ends with db.session.commit()).            *)
(***************************************************************************)
EXTENDS Bags, FiniteSets, Integers, Sequences, TLC

\* ---------------------------------------------------------------- bounds
MaxUsers == 2        \* user ids ever allocated by the users serial
MaxMessages == 2     \* message ids ever allocated by the messages serial
MaxRows == 4         \* rows the database holds, all four tables together
Overflow == 2        \* messages beyond the homepage limit in a large store
MaxStride == 3       \* author patterns of a large store

\* ------------------------------------------------------------- constants
HomeLimit == 100     \* .limit(100) of the homepage query

None == 0            \* Python None: no such row, no current user

Clients == {"c1"}                \* browser sessions (cookie jars)
UserIds == 1..MaxUsers           \* ids a request may name in its URL
MsgIds == 1..MaxMessages
Usernames == 1..MaxUsers         \* form.username.data
Emails == 1..MaxUsers            \* form.email.data
SignupPasswords == {"pw1"}       \* form.password.data on signup
LoginPasswords == {"pw1", "pw2"} \* form.password.data on login
Texts == {"", "t1"}              \* form.text.data, "" when the field is empty
\* (username, email) pairs of the signup form: equal indices, or email 1
SignupForms == {f \in Usernames \X Emails : f[2] \in {f[1], 1}}

VARIABLES
  users,        \* users table: id -> [username, email, password]
  messages,     \* messages table: id -> [text, user_id, timestamp]
  follows,      \* follows table, a bag of <<user_following_id, user_being_followed_id>>
  likes,        \* likes table, a bag of <<user_id, message_id>>
  session,      \* session[c][CURR_USER_KEY], None when the key is absent
  next_user_id, \* users.id serial
  next_msg_id,  \* messages.id serial
  clock,        \* datetime.utcnow() of the next insert
  response,     \* the request being answered and its response, until it is sent
  before,       \* the tables and sessions as that request found them, and the
                \* browser that sent it (before_request)
  hist,         \* the likes table before the last request, when that was a like
  pending       \* pending[c]: the request of browser c that has read the
                \* database and not yet committed

vars == <<users, messages, follows, likes, session, next_user_id, next_msg_id,
          clock, response, before, hist, pending>>

store == [users |-> users, messages |-> messages, follows |-> follows, likes |-> likes]

\* what the request of browser c finds when before_request runs
snapshot(c) ==
  [users |-> users, messages |-> messages, follows |-> follows, likes |-> likes,
   session |-> session, client |-> c]

NoStore ==
  [users |-> <<>>, messages |-> <<>>, follows |-> EmptyBag, likes |-> EmptyBag,
   session |-> <<>>, client |-> "none"]

\* the four tables are as the request being answered found them
TablesUnchanged ==
  /\ users = before.users
  /\ messages = before.messages
  /\ follows = before.follows
  /\ likes = before.likes

\* a request between its reads and its commit: the view, g.user and the URL
\* argument
Pending(op, user, arg) == [op |-> op, user |-> user, arg |-> arg]

NoPending == Pending("none", None, None)

\* ------------------------------------------------------------ models.py
\* bcrypt.generate_password_hash: a one-way image of the password
Hash(pw) == <<"bcrypt", pw>>

\* bcrypt.check_password_hash
CheckHash(h, pw) == h = Hash(pw)

Edge(a, b) == SetToBag({<<a, b>>})

\* User.following / User.followers / User.liked_messages / User.messages
following(u) == {b \in DOMAIN users : BagIn(<<u, b>>, follows)}

followers(u) == {a \in DOMAIN users : BagIn(<<a, u>>, follows)}

liked_messages(u) == {m \in DOMAIN messages : BagIn(<<u, m>>, likes)}

user_messages(u) == {m \in DOMAIN messages : messages[m].user_id = u}

\* faulty variant: the lookup never misses
UserGet_any(id) == id

\* User.query.get / Message.query.get
UserGet(id) == IF id \in DOMAIN users THEN id ELSE None

MessageGet(id) == IF id \in DOMAIN messages THEN id ELSE None

\* faulty variant: only the username is unique
IntegrityError_username_only(username, email) ==
  \E u \in DOMAIN users : users[u].username = username

\* unique constraints of users.username and users.email
IntegrityError(username, email) ==
  \E u \in DOMAIN users : users[u].username = username \/ users[u].email = email

\* User.authenticate: the user of that username when the password matches
authenticate(username, password) ==
  LET found == {u \in DOMAIN users : users[u].username = username}
  IN IF found = {} THEN None
     ELSE LET u == CHOOSE x \in found : TRUE
          IN IF CheckHash(users[u].password, password) THEN u ELSE None

Restrict(f, S) == [x \in S |-> f[x]]

BagFilter(B, keep(_)) ==
  LET S == {e \in BagToSet(B) : keep(e)} IN [e \in S |-> B[e]]

\* ON DELETE CASCADE of messages.user_id, follows.* and likes.*, for the set D
\* of deleted users rows
MessagesAfterUserDelete(D) ==
  Restrict(messages, {m \in DOMAIN messages : messages[m].user_id \notin D})

FollowsAfterUserDelete(D) ==
  LET keep(e) == e[1] \notin D /\ e[2] \notin D IN BagFilter(follows, keep)

LikesAfterUserDelete(D) ==
  LET keep(e) == e[1] \notin D /\ e[2] \in DOMAIN MessagesAfterUserDelete(D)
  IN BagFilter(likes, keep)

\* faulty variant: the likes of a deleted message stay
LikesAfterMessageDelete_kept(mid) == likes

LikesAfterMessageDelete(mid) ==
  LET keep(e) == e[2] # mid IN BagFilter(likes, keep)

\* --------------------------------------------------------------- app.py
\* add_user_and_csrf_to_g: g.user
\* faulty variant: a request without a session key is resolved to user 1
g_user_default(c) == IF session[c] # None THEN UserGet(session[c]) ELSE 1

\* faulty variant: the id of the session key is taken without a lookup
g_user_stale(c) == session[c]

g_user(c) == IF session[c] # None THEN UserGet(session[c]) ELSE None

\* faulty variant: the session key holds the id of the first user
do_login_first(c, user) == [session EXCEPT ![c] = 1]

\* faulty variant: the session key is never written
do_login_lost(c, user) == session

do_login(c, user) == [session EXCEPT ![c] = user]

do_logout(c) == [session EXCEPT ![c] = None]

\* the submitted form fields of a request and the browser that sent it (kept
\* for signup, login and add_message)
FormData(c, username, email, password, text) ==
  [client |-> c, username |-> username, email |-> email, password |-> password,
   text |-> text]

NoData == FormData("none", None, None, "none", "none")

\* the response of view op, called by user (g.user) with URL argument arg and
\* a form that validates or not; tests lists, in the order of evaluation, the
\* conditions the view evaluated before it answered (kept for like_message)
Response(op, user, arg, form, outcome, body) ==
  [op |-> op, user |-> user, arg |-> arg, form |-> form, outcome |-> outcome,
   body |-> body, tests |-> <<>>, data |-> NoData]

NoResponse == Response("none", None, None, TRUE, "none", <<>>)

\* faulty variant: the membership test before the insert is lost
already_following_unchecked(u, b) == FALSE

\* faulty variant: the membership test before the removal is lost
not_following_unchecked(u, b) == FALSE

\* followed_user in g.user.following / followed_user not in g.user.following
already_following(u, b) == b \in following(u)

not_following(u, b) == b \notin following(u)

\* g.user.following.append(followed_user) / .remove(followed_user), committed
\* faulty variant: the edge is stored the wrong way round
following_append_reversed(u, b) == follows (+) Edge(b, u)

following_append(u, b) == follows (+) Edge(u, b)

\* faulty variant: the edge is removed in both directions
following_remove_both(u, b) == (follows (-) Edge(u, b)) (-) Edge(b, u)

following_remove(u, b) == follows (-) Edge(u, b)

\* faulty variant: the membership test before the like is lost
already_liked_unchecked(u, m) == FALSE

\* faulty variant: the membership test before the unlike is lost
not_liked_unchecked(u, m) == FALSE

\* msg in g.user.liked_messages / msg not in g.user.liked_messages
already_liked(u, m) == m \in liked_messages(u)

not_liked(u, m) == m \notin liked_messages(u)

\* faulty variant: the author test is lost
own_message_unchecked(u, m) == FALSE

\* msg.user.id == g.user.id
own_message(u, m) == messages[m].user_id = u

\* faulty variant: the removal is never committed
liked_messages_remove_lost(u, m) == likes

\* g.user.liked_messages.append(msg) / .remove(msg), committed
liked_messages_append(u, m) == likes (+) Edge(u, m)

liked_messages_remove(u, m) == likes (-) Edge(u, m)

\* faulty variant: the filter matches no row
filter_by_id_none(uid) == {}

\* faulty variant: the filter is lost, the delete() removes every row
filter_by_id_all(uid) == DOMAIN users

\* User.query.filter_by(id=g.user.id): the rows the delete() removes
filter_by_id(uid) == {u \in DOMAIN users : u = uid}

Rows ==
  Cardinality(DOMAIN users) + Cardinality(DOMAIN messages)
    + BagCardinality(follows) + BagCardinality(likes)

NoHist == [phase |-> "none", user |-> None, message_id |-> None, likes |-> EmptyBag]

Init ==
  /\ users = <<>>
  /\ messages = <<>>
  /\ follows = EmptyBag
  /\ likes = EmptyBag
  /\ session = [c \in Clients |-> None]
  /\ next_user_id = 1
  /\ next_msg_id = 1
  /\ clock = 1
  /\ response = NoResponse
  /\ before = NoStore
  /\ hist = NoHist
  /\ pending = [c \in Clients |-> NoPending]

\* the conditions of like_message, in the order of its if / elif chain
like_message_tests ==
  <<"Message.query.get_or_404", "not g.user", "msg in g.user.liked_messages",
    "msg.user.id == g.user.id", "not form.validate_on_submit()">>

signup(c, username, email, password, valid) ==
  LET reply(outcome) ==
        [Response("signup", g_user(c), None, valid, outcome, <<>>)
           EXCEPT !.data = FormData(c, username, email, password, "none")] IN
  /\ before' = snapshot(c)
  /\ UNCHANGED pending
  /\ hist' = NoHist
  /\ UNCHANGED <<messages, follows, likes, next_msg_id, clock>>
  /\ IF g_user(c) # None
       THEN /\ response' = reply("must_be_logged_out")
            /\ UNCHANGED <<users, session, next_user_id>>
     ELSE IF ~valid
       THEN /\ response' = reply("form")
            /\ UNCHANGED <<users, session, next_user_id>>
     ELSE IF IntegrityError(username, email)
       THEN /\ response' = reply("duplicate")
            /\ UNCHANGED <<users, session, next_user_id>>
     ELSE /\ next_user_id <= MaxUsers /\ Rows < MaxRows
          /\ users' = [u \in DOMAIN users \cup {next_user_id} |->
                         IF u = next_user_id
                           THEN [username |-> username, email |-> email,
                                 password |-> Hash(password)]
                           ELSE users[u]]
          /\ next_user_id' = next_user_id + 1
          /\ session' = do_login(c, next_user_id)
          /\ response' = [reply("ok") EXCEPT !.arg = next_user_id]

login(c, username, password, valid) ==
  LET reply(outcome) ==
        [Response("login", g_user(c), None, valid, outcome, <<>>)
           EXCEPT !.data = FormData(c, username, None, password, "none")] IN
  /\ before' = snapshot(c)
  /\ UNCHANGED pending
  /\ hist' = NoHist
  /\ UNCHANGED <<users, messages, follows, likes, next_user_id, next_msg_id, clock>>
  /\ IF g_user(c) # None
       THEN /\ response' = reply("must_be_logged_out")
            /\ UNCHANGED session
     ELSE IF ~valid
       THEN /\ response' = reply("form")
            /\ UNCHANGED session
     ELSE IF authenticate(username, password) # None
       THEN /\ session' = do_login(c, authenticate(username, password))
            /\ response' = [reply("ok") EXCEPT !.arg = authenticate(username, password)]
     ELSE /\ response' = reply("invalid_credentials")
          /\ UNCHANGED session

logout(c, csrf) ==
  LET reply(outcome) ==
        Response("logout", g_user(c), None, csrf, outcome, <<>>) IN
  /\ before' = snapshot(c)
  /\ UNCHANGED pending
  /\ hist' = NoHist
  /\ UNCHANGED <<users, messages, follows, likes, next_user_id, next_msg_id, clock>>
  /\ IF g_user(c) = None
       THEN /\ response' = reply("already_logged_out")
            /\ UNCHANGED session
     ELSE IF ~csrf
       THEN /\ response' = reply("unauthorized")
            /\ UNCHANGED session
     ELSE /\ session' = do_logout(c)
          /\ response' = reply("ok")

start_following(c, follow_id, csrf) ==
  LET reply(outcome) ==
        Response("start_following", g_user(c), follow_id, csrf, outcome, <<>>) IN
  /\ before' = snapshot(c)
  /\ UNCHANGED pending
  /\ hist' = NoHist
  /\ UNCHANGED <<users, messages, likes, session, next_user_id, next_msg_id, clock>>
  /\ IF g_user(c) = None
       THEN /\ response' = reply("access_unauthorized")
            /\ UNCHANGED follows
     ELSE IF ~csrf
       THEN /\ response' = reply("unauthorized")
            /\ UNCHANGED follows
     ELSE IF UserGet(follow_id) = None
       THEN /\ response' = reply("not_found")
            /\ UNCHANGED follows
     ELSE IF already_following(g_user(c), follow_id)
       THEN /\ response' = reply("already_following")
            /\ UNCHANGED follows
     ELSE /\ Rows < MaxRows
          /\ follows' = following_append(g_user(c), follow_id)
          /\ response' = reply("ok")

stop_following(c, follow_id, csrf) ==
  LET reply(outcome) ==
        Response("stop_following", g_user(c), follow_id, csrf, outcome, <<>>) IN
  /\ before' = snapshot(c)
  /\ UNCHANGED pending
  /\ hist' = NoHist
  /\ UNCHANGED <<users, messages, likes, session, next_user_id, next_msg_id, clock>>
  /\ IF g_user(c) = None
       THEN /\ response' = reply("access_unauthorized")
            /\ UNCHANGED follows
     ELSE IF ~csrf
       THEN /\ response' = reply("unauthorized")
            /\ UNCHANGED follows
     ELSE IF UserGet(follow_id) = None
       THEN /\ response' = reply("not_found")
            /\ UNCHANGED follows
     ELSE IF not_following(g_user(c), follow_id)
       THEN /\ response' = reply("not_following")
            /\ UNCHANGED follows
     ELSE /\ follows' = following_remove(g_user(c), follow_id)
          /\ response' = reply("ok")

delete_user(c, csrf) ==
  LET reply(outcome) ==
        Response("delete_user", g_user(c), None, csrf, outcome, <<>>) IN
  /\ before' = snapshot(c)
  /\ UNCHANGED pending
  /\ hist' = NoHist
  /\ UNCHANGED <<next_user_id, next_msg_id, clock>>
  /\ IF g_user(c) = None \/ ~csrf
       THEN /\ response' = reply("unauthorized")
            /\ UNCHANGED <<users, messages, follows, likes, session>>
     ELSE /\ session' = do_logout(c)
          /\ users' = Restrict(users, DOMAIN users \ filter_by_id(g_user(c)))
          /\ messages' = MessagesAfterUserDelete(filter_by_id(g_user(c)))
          /\ follows' = FollowsAfterUserDelete(filter_by_id(g_user(c)))
          /\ likes' = LikesAfterUserDelete(filter_by_id(g_user(c)))
          /\ response' = reply("ok")

\* faulty variant: every message carries the same timestamp
new_message_undated(text, user) ==
  [text |-> text, user_id |-> user, timestamp |-> 1]

\* faulty variant: the message is not appended to g.user.messages
new_message_orphan(text, user) ==
  [text |-> text, user_id |-> None, timestamp |-> clock]

\* msg = Message(text=form.text.data); g.user.messages.append(msg): the new
\* row, with the timestamp the insert assigns
new_message(text, user) ==
  [text |-> text, user_id |-> user, timestamp |-> clock]

\* MessageForm().validate_on_submit(): the CSRF token is valid and the text
\* field is not empty
MessageForm_validate(text, csrf) == csrf /\ text # ""

add_message(c, text, csrf) ==
  LET valid == MessageForm_validate(text, csrf)
      reply(outcome) ==
        [Response("add_message", g_user(c), None, valid, outcome, <<>>)
           EXCEPT !.data = FormData(c, None, None, "none", text)] IN
  /\ before' = snapshot(c)
  /\ UNCHANGED pending
  /\ hist' = NoHist
  /\ UNCHANGED <<users, follows, likes, session, next_user_id>>
  /\ IF g_user(c) = None
       THEN /\ response' = reply("access_unauthorized")
            /\ UNCHANGED <<messages, next_msg_id, clock>>
     ELSE IF ~valid
       THEN /\ response' = reply("form")
            /\ UNCHANGED <<messages, next_msg_id, clock>>
     ELSE /\ next_msg_id <= MaxMessages /\ Rows < MaxRows
          /\ messages' = [m \in DOMAIN messages \cup {next_msg_id} |->
                            IF m = next_msg_id
                              THEN new_message(text, g_user(c))
                              ELSE messages[m]]
          /\ next_msg_id' = next_msg_id + 1
          /\ clock' = clock + 1
          /\ response' = [reply("ok") EXCEPT !.arg = next_msg_id]

delete_message(c, message_id, csrf) ==
  LET reply(outcome) ==
        Response("delete_message", g_user(c), message_id, csrf, outcome, <<>>) IN
  /\ before' = snapshot(c)
  /\ UNCHANGED pending
  /\ hist' = NoHist
  /\ UNCHANGED <<users, follows, session, next_user_id, next_msg_id, clock>>
  /\ IF g_user(c) = None
       THEN /\ response' = reply("access_unauthorized")
            /\ UNCHANGED <<messages, likes>>
     ELSE IF ~csrf
       THEN /\ response' = reply("unauthorized")
            /\ UNCHANGED <<messages, likes>>
     ELSE IF MessageGet(message_id) = None
       THEN /\ response' = reply("not_found")
            /\ UNCHANGED <<messages, likes>>
     ELSE /\ messages' = Restrict(messages, DOMAIN messages \ {message_id})
          /\ likes' = LikesAfterMessageDelete(message_id)
          /\ response' = reply("ok")

like_message(c, message_id, csrf) ==
  LET reply(outcome, n) ==
        [Response("like_message", g_user(c), message_id, csrf, outcome, <<>>)
           EXCEPT !.tests = SubSeq(like_message_tests, 1, n)] IN
  /\ before' = snapshot(c)
  /\ UNCHANGED pending
  /\ UNCHANGED <<users, messages, follows, session, next_user_id, next_msg_id, clock>>
  /\ IF MessageGet(message_id) = None
       THEN /\ response' = reply("not_found", 1)
            /\ UNCHANGED likes /\ hist' = NoHist
     ELSE IF g_user(c) = None
       THEN /\ response' = reply("access_unauthorized", 2)
            /\ UNCHANGED likes /\ hist' = NoHist
     ELSE IF already_liked(g_user(c), message_id)
       THEN /\ response' = reply("already_liked", 3)
            /\ UNCHANGED likes /\ hist' = NoHist
     ELSE IF own_message(g_user(c), message_id)
       THEN /\ response' = reply("self_like", 4)
            /\ UNCHANGED likes /\ hist' = NoHist
     ELSE IF ~csrf
       THEN /\ response' = reply("unauthorized", 5)
            /\ UNCHANGED likes /\ hist' = NoHist
     ELSE /\ Rows < MaxRows
          /\ likes' = liked_messages_append(g_user(c), message_id)
          /\ hist' = [phase |-> "liked", user |-> g_user(c),
                       message_id |-> message_id, likes |-> likes]
          /\ response' = reply("ok", 5)

unlike_message(c, message_id, csrf) ==
  LET reply(outcome) ==
        Response("unlike_message", g_user(c), message_id, csrf, outcome, <<>>) IN
  /\ before' = snapshot(c)
  /\ UNCHANGED pending
  /\ UNCHANGED <<users, messages, follows, session, next_user_id, next_msg_id, clock>>
  /\ IF MessageGet(message_id) = None
       THEN /\ response' = reply("not_found")
            /\ UNCHANGED likes /\ hist' = NoHist
     ELSE IF g_user(c) = None
       THEN /\ response' = reply("access_unauthorized")
            /\ UNCHANGED likes /\ hist' = NoHist
     ELSE IF not_liked(g_user(c), message_id)
       THEN /\ response' = reply("not_liked")
            /\ UNCHANGED likes /\ hist' = NoHist
     ELSE IF ~csrf
       THEN /\ response' = reply("unauthorized")
            /\ UNCHANGED likes /\ hist' = NoHist
     ELSE /\ likes' = liked_messages_remove(g_user(c), message_id)
          /\ hist' = IF hist.phase = "liked" /\ hist.user = g_user(c)
                          /\ hist.message_id = message_id
                       THEN [hist EXCEPT !.phase = "round_trip"]
                       ELSE NoHist
          /\ response' = reply("ok")

\* ------------------------------------------------------- homepage query
Min(a, b) == IF a < b THEN a ELSE b

\* faulty variant: the user's own messages are left out
HomeFilter_followed_only(u) ==
  {m \in DOMAIN messages : messages[m].user_id \in following(u)}

\* Message.user_id.in_(following ids) OR Message.user_id == g.user.id
HomeFilter(u) ==
  {m \in DOMAIN messages :
     messages[m].user_id \in following(u) \/ messages[m].user_id = u}

\* the rows of S in the order in which row x comes before row m iff
\* Precedes(x, m)
Sorted(S, Precedes(_, _)) ==
  LET rank == [m \in S |-> Cardinality({x \in S : Precedes(x, m)})]
  IN [i \in 1..Cardinality(S) |-> CHOOSE m \in S : rank[m] = i - 1]

\* faulty variant: ascending order
OrderByTimestampAsc(S) ==
  LET Precedes(x, m) ==
        \/ messages[x].timestamp < messages[m].timestamp
        \/ messages[x].timestamp = messages[m].timestamp /\ x < m
  IN Sorted(S, Precedes)

\* .order_by(Message.timestamp.desc()); rows of one timestamp in id order
OrderByTimestampDesc(S) ==
  LET Precedes(x, m) ==
        \/ messages[x].timestamp > messages[m].timestamp
        \/ messages[x].timestamp = messages[m].timestamp /\ x < m
  IN Sorted(S, Precedes)

\* .limit(n)
Limit(rows, n) == SubSeq(rows, 1, Min(n, Len(rows)))

HomeQuery(u) == Limit(OrderByTimestampDesc(HomeFilter(u)), HomeLimit)

\* faulty variant: one template for every caller
home_template_always(user) == "home"

\* render_template('home.html', messages=messages) if g.user, else
\* render_template('home-anon.html'), which is given no messages
home_template(user) == IF user # None THEN "home" ELSE "home_anon"

homepage(c) ==
  /\ hist' = NoHist
  /\ before' = snapshot(c)
  /\ UNCHANGED pending
  /\ UNCHANGED <<users, messages, follows, likes, session, next_user_id,
                 next_msg_id, clock>>
  /\ IF g_user(c) # None
       THEN response' = Response("homepage", g_user(c), None, TRUE,
                                 home_template(g_user(c)), HomeQuery(g_user(c)))
       ELSE response' = Response("homepage", g_user(c), None, TRUE,
                                 home_template(g_user(c)), <<>>)

\* after_request: the response leaves the server; the client then sends its
\* next request
add_header ==
  /\ response # NoResponse
  /\ response' = NoResponse
  /\ before' = NoStore
  /\ UNCHANGED <<users, messages, follows, likes, session, next_user_id,
                 next_msg_id, clock, hist, pending>>

\* a request enters once the previous response has been sent
Idle == response = NoResponse

Next ==
  \/ \E c \in Clients, f \in SignupForms, p \in SignupPasswords, valid \in BOOLEAN :
        Idle /\ signup(c, f[1], f[2], p, valid)
  \/ \E c \in Clients, n \in Usernames, p \in LoginPasswords, valid \in BOOLEAN :
        Idle /\ login(c, n, p, valid)
  \/ \E c \in Clients, csrf \in BOOLEAN : Idle /\ logout(c, csrf)
  \/ \E c \in Clients, id \in UserIds, csrf \in BOOLEAN :
        Idle /\ start_following(c, id, csrf)
  \/ \E c \in Clients, id \in UserIds, csrf \in BOOLEAN :
        Idle /\ stop_following(c, id, csrf)
  \/ \E c \in Clients, csrf \in BOOLEAN : Idle /\ delete_user(c, csrf)
  \/ \E c \in Clients, text \in Texts, csrf \in BOOLEAN :
        Idle /\ add_message(c, text, csrf)
  \/ \E c \in Clients, id \in MsgIds, csrf \in BOOLEAN :
        Idle /\ delete_message(c, id, csrf)
  \/ \E c \in Clients, id \in MsgIds, csrf \in BOOLEAN :
        Idle /\ like_message(c, id, csrf)
  \/ \E c \in Clients, id \in MsgIds, csrf \in BOOLEAN :
        Idle /\ unlike_message(c, id, csrf)
  \/ \E c \in Clients : Idle /\ homepage(c)
  \/ add_header

Spec == Init /\ [][Next]_vars

\* ----------------------------------------------------------- large store
\* A store the program reaches after two signups and about HomeLimit posts:
\* users 1 and 2, messages 1..n posted in that order, every stride-th one by
\* user 2; the browser is logged in.
LargeStoreSizes == (HomeLimit - 1)..(HomeLimit + Overflow)

LargeStoreFollows == SUBSET {<<1, 2>>, <<2, 1>>}

InitTimeline ==
  \E n \in LargeStoreSizes, stride \in 1..MaxStride, F \in LargeStoreFollows,
     u \in {1, 2} :
    /\ users = [id \in {1, 2} |->
                  [username |-> id, email |-> id, password |-> Hash("pw1")]]
    /\ messages = [m \in 1..n |->
                     [text |-> "t1", user_id |-> IF m % stride = 0 THEN 2 ELSE 1,
                      timestamp |-> m]]
    /\ follows = SetToBag(F)
    /\ likes = EmptyBag
    /\ session = [c \in Clients |-> u]
    /\ next_user_id = 3
    /\ next_msg_id = n + 1
    /\ clock = n + 1
    /\ response = NoResponse
    /\ before = NoStore
    /\ hist = NoHist
    /\ pending = [c \in Clients |-> NoPending]

NextTimeline ==
  \/ \E c \in Clients : Idle /\ homepage(c)
  \/ \E c \in Clients, id \in {1, 2}, csrf \in BOOLEAN :
        Idle /\ stop_following(c, id, csrf)
  \/ \E c \in Clients, csrf \in BOOLEAN : Idle /\ logout(c, csrf)
  \/ add_header

SpecTimeline == InitTimeline /\ [][NextTimeline]_vars

\* -------------------------------------------------------- profile edits
\* g.user.username = form.username.data or g.user.username (and email): the
\* row of user u after the edit; a blank field is None
edited_user(u, username, email) ==
  [users[u] EXCEPT !.username = IF username # None THEN username ELSE @,
                   !.email = IF email # None THEN email ELSE @]

\* the unique constraints of users.username and users.email fail at the
\* commit of the edit
EditIntegrityError(u, username, email) ==
  \E v \in DOMAIN users \ {u} :
    \/ users[v].username = edited_user(u, username, email).username
    \/ users[v].email = edited_user(u, username, email).email

edit_profile(c, username, email, password, valid) ==
  LET reply(outcome) ==
        [Response("edit_profile", g_user(c), None, valid, outcome, <<>>)
           EXCEPT !.data = FormData(c, username, email, password, "none")] IN
  /\ before' = snapshot(c)
  /\ UNCHANGED pending
  /\ hist' = NoHist
  /\ UNCHANGED <<messages, follows, likes, session, next_user_id, next_msg_id, clock>>
  /\ IF g_user(c) = None
       THEN /\ response' = reply("access_unauthorized")
            /\ UNCHANGED users
     ELSE IF ~valid
       THEN /\ response' = reply("form")
            /\ UNCHANGED users
     ELSE IF authenticate(users[g_user(c)].username, password) = None
       THEN /\ response' = reply("invalid_password")
            /\ UNCHANGED users
     ELSE IF EditIntegrityError(g_user(c), username, email)
       THEN /\ response' = reply("integrity_error")
            /\ UNCHANGED users
     ELSE /\ users' = [users EXCEPT ![g_user(c)] = edited_user(g_user(c), username, email)]
          /\ response' = reply("ok")

\* A store the program reaches after two signups; the browser is logged in as
\* one of the two users. Every view that writes a table other than by signup
\* or account deletion runs on it, with the message texts MessageTexts.
MessageTexts == Texts \cup {"t2"}

\* (username, email) pairs of the edit form: both blank, a username in use,
\* a username and an email nobody signed up with
EditForms == {<<None, None>>, <<1, None>>, <<MaxUsers + 1, MaxUsers + 1>>}

InitMessages ==
  \E u \in {1, 2} :
    /\ users = [id \in {1, 2} |->
                  [username |-> id, email |-> id, password |-> Hash("pw1")]]
    /\ messages = <<>>
    /\ follows = EmptyBag
    /\ likes = EmptyBag
    /\ session = [c \in Clients |-> u]
    /\ next_user_id = 3
    /\ next_msg_id = 1
    /\ clock = 1
    /\ response = NoResponse
    /\ before = NoStore
    /\ hist = NoHist
    /\ pending = [c \in Clients |-> NoPending]

NextMessages ==
  \/ \E c \in Clients, n \in Usernames \cup {MaxUsers + 1},
        p \in LoginPasswords, valid \in BOOLEAN :
        Idle /\ login(c, n, p, valid)
  \/ \E c \in Clients, csrf \in BOOLEAN : Idle /\ logout(c, csrf)
  \/ \E c \in Clients, f \in EditForms, p \in LoginPasswords, valid \in BOOLEAN :
        Idle /\ edit_profile(c, f[1], f[2], p, valid)
  \/ \E c \in Clients, id \in {1, 2}, csrf \in BOOLEAN :
        Idle /\ start_following(c, id, csrf)
  \/ \E c \in Clients, id \in {1, 2}, csrf \in BOOLEAN :
        Idle /\ stop_following(c, id, csrf)
  \/ \E c \in Clients, text \in MessageTexts, csrf \in BOOLEAN :
        Idle /\ add_message(c, text, csrf)
  \/ \E c \in Clients, id \in MsgIds, csrf \in BOOLEAN :
        Idle /\ delete_message(c, id, csrf)
  \/ \E c \in Clients, id \in MsgIds, csrf \in BOOLEAN :
        Idle /\ like_message(c, id, csrf)
  \/ \E c \in Clients, id \in MsgIds, csrf \in BOOLEAN :
        Idle /\ unlike_message(c, id, csrf)
  \/ add_header

SpecMessages == InitMessages /\ [][NextMessages]_vars

\* ------------------------------------------------- interleaved requests
\* Two browsers send requests that the server handles at the same time, each
\* in its own database session: a view's reads (up to its last test) and its
\* commit are separate steps, and steps of the two requests interleave.
Browsers == {"c1", "c2"}

\* the composite primary key of follows / likes rejects a second row of one
\* pair when the insert is committed
FollowsKeyViolation(u, b) == BagIn(<<u, b>>, follows)

LikesKeyViolation(u, m) == BagIn(<<u, m>>, likes)

\* start_following up to the membership test: the request is answered here
\* when a test fails, and goes on to its commit otherwise
start_following_read(c, follow_id, csrf) ==
  LET reply(outcome) ==
        Response("start_following", g_user(c), follow_id, csrf, outcome, <<>>) IN
  /\ pending[c] = NoPending
  /\ before' = snapshot(c)
  /\ hist' = NoHist
  /\ UNCHANGED <<users, messages, follows, likes, session, next_user_id,
                 next_msg_id, clock>>
  /\ IF g_user(c) = None
       THEN response' = reply("access_unauthorized") /\ UNCHANGED pending
     ELSE IF ~csrf
       THEN response' = reply("unauthorized") /\ UNCHANGED pending
     ELSE IF UserGet(follow_id) = None
       THEN response' = reply("not_found") /\ UNCHANGED pending
     ELSE IF already_following(g_user(c), follow_id)
       THEN response' = reply("already_following") /\ UNCHANGED pending
     ELSE /\ pending' = [pending EXCEPT
                           ![c] = Pending("start_following", g_user(c), follow_id)]
          /\ UNCHANGED response

\* g.user.following.append(followed_user); db.session.commit()
start_following_commit(c) ==
  LET u == pending[c].user
      b == pending[c].arg
      reply(outcome) == Response("start_following", u, b, TRUE, outcome, <<>>) IN
  /\ pending[c].op = "start_following"
  /\ pending' = [pending EXCEPT ![c] = NoPending]
  /\ before' = snapshot(c)
  /\ hist' = NoHist
  /\ UNCHANGED <<users, messages, likes, session, next_user_id, next_msg_id, clock>>
  /\ IF FollowsKeyViolation(u, b)
       THEN /\ response' = reply("integrity_error")
            /\ UNCHANGED follows
     ELSE /\ Rows < MaxRows
          /\ follows' = following_append(u, b)
          /\ response' = reply("ok")

\* like_message up to the form test
like_message_read(c, message_id, csrf) ==
  LET reply(outcome, n) ==
        [Response("like_message", g_user(c), message_id, csrf, outcome, <<>>)
           EXCEPT !.tests = SubSeq(like_message_tests, 1, n)] IN
  /\ pending[c] = NoPending
  /\ before' = snapshot(c)
  /\ hist' = NoHist
  /\ UNCHANGED <<users, messages, follows, likes, session, next_user_id,
                 next_msg_id, clock>>
  /\ IF MessageGet(message_id) = None
       THEN response' = reply("not_found", 1) /\ UNCHANGED pending
     ELSE IF g_user(c) = None
       THEN response' = reply("access_unauthorized", 2) /\ UNCHANGED pending
     ELSE IF already_liked(g_user(c), message_id)
       THEN response' = reply("already_liked", 3) /\ UNCHANGED pending
     ELSE IF own_message(g_user(c), message_id)
       THEN response' = reply("self_like", 4) /\ UNCHANGED pending
     ELSE IF ~csrf
       THEN response' = reply("unauthorized", 5) /\ UNCHANGED pending
     ELSE /\ pending' = [pending EXCEPT
                           ![c] = Pending("like_message", g_user(c), message_id)]
          /\ UNCHANGED response

\* g.user.liked_messages.append(msg); db.session.commit()
like_message_commit(c) ==
  LET u == pending[c].user
      m == pending[c].arg
      reply(outcome) ==
        [Response("like_message", u, m, TRUE, outcome, <<>>)
           EXCEPT !.tests = like_message_tests] IN
  /\ pending[c].op = "like_message"
  /\ pending' = [pending EXCEPT ![c] = NoPending]
  /\ before' = snapshot(c)
  /\ hist' = NoHist
  /\ UNCHANGED <<users, messages, follows, session, next_user_id, next_msg_id, clock>>
  /\ IF LikesKeyViolation(u, m)
       THEN /\ response' = reply("integrity_error")
            /\ UNCHANGED likes
     ELSE /\ Rows < MaxRows
          /\ likes' = liked_messages_append(u, m)
          /\ response' = reply("ok")

\* The store after two signups and one post by user 2; each browser is
\* logged in as one of the users.
InitRace ==
  \E s \in [Browsers -> {1, 2}], F \in LargeStoreFollows :
    /\ users = [id \in {1, 2} |->
                  [username |-> id, email |-> id, password |-> Hash("pw1")]]
    /\ messages = [m \in {1} |-> [text |-> "t1", user_id |-> 2, timestamp |-> 1]]
    /\ follows = SetToBag(F)
    /\ likes = EmptyBag
    /\ session = s
    /\ next_user_id = 3
    /\ next_msg_id = 2
    /\ clock = 2
    /\ response = NoResponse
    /\ before = NoStore
    /\ hist = NoHist
    /\ pending = [c \in Browsers |-> NoPending]

NextRace ==
  \/ \E c \in Browsers, id \in {1, 2}, csrf \in BOOLEAN :
        Idle /\ start_following_read(c, id, csrf)
  \/ \E c \in Browsers : Idle /\ start_following_commit(c)
  \/ \E c \in Browsers, id \in MsgIds, csrf \in BOOLEAN :
        Idle /\ like_message_read(c, id, csrf)
  \/ \E c \in Browsers : Idle /\ like_message_commit(c)
  \/ \E c \in Browsers, id \in {1, 2}, csrf \in BOOLEAN :
        Idle /\ pending[c] = NoPending /\ stop_following(c, id, csrf)
  \/ add_header

SpecRace == InitRace /\ [][NextRace]_vars

\* ------------------------------------------------------- two browsers
\* Two browsers with a session cookie each use the site, one request at a
\* time: both may hold the id of the same user, and one of them may delete
\* that user while the other still holds the id.
InitSessions ==
  \E s \in [Browsers -> {None, 1, 2}] :
    /\ users = [id \in {1, 2} |->
                  [username |-> id, email |-> id, password |-> Hash("pw1")]]
    /\ messages = [m \in {1} |-> [text |-> "t1", user_id |-> 2, timestamp |-> 1]]
    /\ follows = EmptyBag
    /\ likes = EmptyBag
    /\ session = s
    /\ next_user_id = 3
    /\ next_msg_id = 2
    /\ clock = 2
    /\ response = NoResponse
    /\ before = NoStore
    /\ hist = NoHist
    /\ pending = [c \in Browsers |-> NoPending]

NextSessions ==
  \/ \E c \in Browsers, n \in Usernames, p \in LoginPasswords :
        Idle /\ login(c, n, p, TRUE)
  \/ \E c \in Browsers, csrf \in BOOLEAN : Idle /\ logout(c, csrf)
  \/ \E c \in Browsers, csrf \in BOOLEAN : Idle /\ delete_user(c, csrf)
  \/ \E c \in Browsers, f \in EditForms, valid \in BOOLEAN :
        Idle /\ edit_profile(c, f[1], f[2], "pw1", valid)
  \/ \E c \in Browsers, id \in {1, 2}, csrf \in BOOLEAN :
        Idle /\ start_following(c, id, csrf)
  \/ \E c \in Browsers, id \in {1, 2}, csrf \in BOOLEAN :
        Idle /\ stop_following(c, id, csrf)
  \/ \E c \in Browsers, text \in Texts, csrf \in BOOLEAN :
        Idle /\ add_message(c, text, csrf)
  \/ \E c \in Browsers, id \in MsgIds, csrf \in BOOLEAN :
        Idle /\ delete_message(c, id, csrf)
  \/ \E c \in Browsers, id \in MsgIds, csrf \in BOOLEAN :
        Idle /\ like_message(c, id, csrf)
  \/ \E c \in Browsers, id \in MsgIds, csrf \in BOOLEAN :
        Idle /\ unlike_message(c, id, csrf)
  \/ \E c \in Browsers : Idle /\ homepage(c)
  \/ add_header

SpecSessions == InitSessions /\ [][NextSessions]_vars

\* ================================================================ claims
Range(f) == {f[i] : i \in DOMAIN f}

Sent(op, outcome) == response.op = op /\ response.outcome = outcome

\* the request being answered was made by a logged-in user with a valid form
ByUser == response.user # None /\ response.form

FollowingIn(st, u) == {b \in DOMAIN st.users : BagIn(<<u, b>>, st.follows)}

FollowersIn(st, u) == {a \in DOMAIN st.users : BagIn(<<a, u>>, st.follows)}

LikedIn(st, u) == {m \in DOMAIN st.messages : BagIn(<<u, m>>, st.likes)}

AuthoredIn(st, u) == {m \in DOMAIN st.messages : st.messages[m].user_id = u}

\* C1: right after a successful follow(A,B) of distinct users, B is in
\* list_following(A) and A is in list_followers(B); right after a successful
\* unfollow(A,B), neither membership holds.
C1_FollowThenUnfollow ==
  LET A == response.user
      B == response.arg
  IN /\ (Sent("start_following", "ok") /\ A # B)
          => (B \in following(A) /\ A \in followers(B))
     /\ (Sent("stop_following", "ok") /\ A # B)
          => (B \notin following(A) /\ A \notin followers(B))

C1_Witness ==
  /\ Sent("stop_following", "ok")
  /\ response.user # response.arg
  /\ response.arg \in FollowingIn(before, response.user)

\* C2: a follow(A,B) request made while A already follows B is answered
\* "already following" and the follows table stays as it was, with exactly one
\* (A,B) edge.
C2_AlreadyFollowing ==
  LET A == response.user
      B == response.arg
  IN (response.op = "start_following" /\ ByUser /\ BagIn(<<A, B>>, before.follows))
       => /\ response.outcome = "already_following"
          /\ follows = before.follows
          /\ CopiesIn(<<A, B>>, follows) = 1

C2_Witness ==
  /\ Sent("start_following", "already_following")
  /\ CopiesIn(<<response.user, response.arg>>, follows) = 1

\* C3: an unfollow(A,B) request made while no (A,B) edge exists is answered
\* "not following" and the follows table stays as it was.
C3_NotFollowing ==
  LET A == response.user
      B == response.arg
  IN (/\ response.op = "stop_following" /\ ByUser
      /\ B \in DOMAIN before.users
      /\ ~BagIn(<<A, B>>, before.follows))
       => /\ response.outcome = "not_following"
          /\ follows = before.follows

C3_Witness ==
  /\ Sent("stop_following", "not_following")
  /\ response.user # response.arg
  /\ follows = before.follows

\* the request being answered is a like by a logged-in user of an existing
\* message of their own
LikesOwnMessage ==
  /\ response.op = "like_message" /\ response.user # None
  /\ response.arg \in DOMAIN before.messages
  /\ before.messages[response.arg].user_id = response.user

\* C4 (amended): a like request by logged-in user A on an existing message
\* authored by A is always answered "self like", whatever the form, never
\* "already liked" and never success, and the likes table stays as it was;
\* the already-liked test is evaluated first and is false, the author test
\* second.
C4_SelfLike ==
  LikesOwnMessage
    => /\ response.outcome = "self_like"
       /\ likes = before.likes
       /\ response.tests = SubSeq(like_message_tests, 1, 4)
       /\ response.tests[3] = "msg in g.user.liked_messages"
       /\ response.tests[4] = "msg.user.id == g.user.id"

C4_Witness ==
  /\ Sent("like_message", "self_like")
  /\ messages[response.arg].user_id = response.user
  /\ Len(response.tests) = 4

\* C4 (as stated): the same outcome, with the self-like precondition decided
\* before the already-liked precondition, that is, without the already-liked
\* test having been evaluated.
C4_SelfLikeDecidedFirst ==
  LikesOwnMessage
    => /\ response.outcome = "self_like"
       /\ likes = before.likes
       /\ "msg in g.user.liked_messages" \notin Range(response.tests)

\* C5: a successful like(U,m) directly followed by a successful unlike(U,m)
\* leaves the likes table, and so every user's list_liked, as it was before
\* the like.
C5_LikeUnlikeRoundTrip ==
  hist.phase = "round_trip"
    => /\ likes = hist.likes
       /\ \A u \in DOMAIN users :
            liked_messages(u) = {m \in DOMAIN messages : BagIn(<<u, m>>, hist.likes)}

C5_Witness ==
  /\ hist.phase = "round_trip"
  /\ Sent("unlike_message", "ok")
  /\ BagIn(<<hist.user, hist.message_id>>, before.likes)

\* the messages whose author is u or a user u follows
Eligible(u) ==
  {m \in DOMAIN messages :
     messages[m].user_id = u \/ BagIn(<<u, messages[m].user_id>>, follows)}

\* C6: while no more than the cap are eligible, the home timeline of a
\* logged-in user U holds exactly the stored messages authored by U or by a
\* user U follows, each once, and no other message.
C6_TimelineExact ==
  LET U == response.user
  IN (/\ response.op = "homepage" /\ U # None
      /\ Cardinality(Eligible(U)) <= HomeLimit)
       => /\ response.outcome = "home"
          /\ Range(response.body) = Eligible(U)
          /\ Len(response.body) = Cardinality(Eligible(U))

C6_Witness ==
  /\ Sent("homepage", "home")
  /\ \E m \in Range(response.body) : messages[m].user_id # response.user

\* C7: the home timeline is in strictly descending timestamp order, holds
\* only eligible messages and at most HomeLimit of them; when more are
\* eligible it holds HomeLimit, and every eligible message left out is older
\* than every message in it.
C7_TimelineOrderAndCap ==
  LET U == response.user
      body == response.body
      ts(m) == messages[m].timestamp
  IN (response.op = "homepage" /\ U # None)
       => /\ Len(body) <= HomeLimit
          /\ Range(body) \subseteq Eligible(U)
          /\ \A i \in 1..(Len(body) - 1) : ts(body[i]) > ts(body[i + 1])
          /\ Cardinality(Eligible(U)) > HomeLimit => Len(body) = HomeLimit
          /\ \A m \in Eligible(U) \ Range(body) :
               \A k \in Range(body) : ts(m) < ts(k)

C7_Witness ==
  /\ Sent("homepage", "home")
  /\ Len(response.body) = HomeLimit
  /\ Eligible(response.user) \ Range(response.body) # {}
  /\ \E m \in Range(response.body) : messages[m].user_id # response.user

\* C8: after delete_user by X, the user X, X's messages, the follow edges from
\* and to X, the likes made by X and the likes on X's messages are all gone.
C8_DeleteUserCascade ==
  LET X == response.user
  IN Sent("delete_user", "ok")
       => /\ X \notin DOMAIN users
          /\ \A m \in DOMAIN messages : messages[m].user_id # X
          /\ \A e \in BagToSet(follows) : e[1] # X /\ e[2] # X
          /\ \A e \in BagToSet(likes) :
               e[1] # X /\ e[2] \notin AuthoredIn(before, X)

C8_Witness ==
  /\ Sent("delete_user", "ok")
  /\ AuthoredIn(before, response.user) # {}
  /\ \E e \in BagToSet(before.likes) : e[2] \in AuthoredIn(before, response.user)

C10_OnlyAuthorDeletes ==
  LET U == response.user
      m == response.arg
  IN (/\ response.op = "delete_message" /\ U # None
      /\ m \in DOMAIN before.messages
      /\ before.messages[m].user_id # U)
       => /\ response.outcome \in {"unauthorized", "access_unauthorized"}
          /\ messages = before.messages

\* C11: no reachable state holds a follow edge (A,A), and a follow request by
\* logged-in user A whose target id is A's own id adds no edge.
C11_NoSelfFollow ==
  /\ \A e \in BagToSet(follows) : e[1] # e[2]
  /\ (response.op = "start_following" /\ response.user # None
        /\ response.arg = response.user)
       => follows = before.follows

\* the signup form being answered names the username or the email of a user
\* the request found in the users table
TakenIn(st, d) ==
  \E u \in DOMAIN st.users :
    st.users[u].username = d.username \/ st.users[u].email = d.email

\* C12: a signup by a not-logged-in browser with a valid form whose username
\* or email is that of an existing user is answered "Username or email
\* already taken": the users table stays as it was, usernames and emails are
\* pairwise unique, and the browser is not logged in.
C12_DuplicateSignup ==
  (/\ response.op = "signup" /\ response.user = None /\ response.form
   /\ TakenIn(before, response.data))
    => /\ response.outcome = "duplicate"
       /\ users = before.users
       /\ \A u, v \in DOMAIN users :
            u # v => /\ users[u].username # users[v].username
                     /\ users[u].email # users[v].email
       /\ g_user(response.data.client) = None

C12_Witness ==
  /\ Sent("signup", "duplicate")
  /\ \E u \in DOMAIN users : users[u].email = response.data.email
  /\ \A u \in DOMAIN users : users[u].username # response.data.username

\* C13: the homepage answers a caller with no logged-in user with the
\* anonymous variant, which carries no messages, and a logged-in user with
\* the message-sequence variant, which is the empty sequence for a user with
\* no posts and no follows; the two variants differ.
C13_AnonymousTimeline ==
  response.op = "homepage"
    => /\ response.user = None
            => response.outcome = "home_anon" /\ response.body = <<>>
       /\ response.user # None => response.outcome = "home"
       /\ (/\ response.user # None
           /\ user_messages(response.user) = {}
           /\ following(response.user) = {})
            => response.outcome # "home_anon" /\ response.body = <<>>

C13_Witness ==
  /\ Sent("homepage", "home_anon")
  /\ response.user = None
  /\ DOMAIN messages # {}

C15_AlreadyLiked ==
  LET U == response.user
      m == response.arg
  IN (/\ response.op = "like_message" /\ U # None
      /\ m \in DOMAIN before.messages
      /\ before.messages[m].user_id # U
      /\ BagIn(<<U, m>>, before.likes))
       => /\ response.outcome = "already_liked"
          /\ likes = before.likes

C15_Witness ==
  /\ Sent("like_message", "already_liked")
  /\ messages[response.arg].user_id # response.user
  /\ CopiesIn(<<response.user, response.arg>>, likes) = 1

\* C16: an unlike request by logged-in user U on an existing message m with
\* no like row (U,m) is answered "not liked", whatever the form, and the likes
\* table stays as it was.
C16_NotLiked ==
  LET U == response.user
      m == response.arg
  IN (/\ response.op = "unlike_message" /\ U # None
      /\ m \in DOMAIN before.messages
      /\ ~BagIn(<<U, m>>, before.likes))
       => /\ response.outcome = "not_liked"
          /\ likes = before.likes

C16_Witness ==
  /\ Sent("unlike_message", "not_liked")
  /\ likes # EmptyBag
  /\ likes = before.likes

\* the users of table st whose username and signup password are those of
\* form d
MatchesIn(st, d) ==
  {u \in DOMAIN st.users :
     /\ st.users[u].username = d.username
     /\ st.users[u].password = Hash(d.password)}

\* C17: a login by a not-logged-in browser with a valid form is answered
\* "Invalid credentials" when the username is unknown or the password is not
\* the one given at signup: the browser stays logged out and the tables stay
\* as they were; with an existing username and its password the browser's
\* session holds exactly that user.
C17_Login ==
  LET d == response.data
  IN (response.op = "login" /\ response.user = None /\ response.form)
       => /\ MatchesIn(before, d) = {}
               => /\ response.outcome = "invalid_credentials"
                  /\ g_user(d.client) = None
                  /\ TablesUnchanged
          /\ \A u \in MatchesIn(before, d) :
               /\ response.outcome = "ok"
               /\ session[d.client] = u
               /\ g_user(d.client) = u
               /\ users[u].username = d.username
               /\ TablesUnchanged

C17_Witness ==
  /\ Sent("login", "invalid_credentials")
  /\ \E u \in DOMAIN users :
       /\ users[u].username = response.data.username
       /\ users[u].password # Hash(response.data.password)

\* C18: of any two stored messages the one inserted later has the strictly
\* greater timestamp, and no request (follow, unfollow, like, unlike, profile
\* edit, login, logout, another post or delete) changes the timestamp, text
\* or author of a message that is stored before and after it.
C18_TimestampsMonotoneImmutable ==
  /\ \A m1, m2 \in DOMAIN messages :
       m1 < m2 => messages[m1].timestamp < messages[m2].timestamp
  /\ \A m \in DOMAIN messages \cap DOMAIN before.messages :
       /\ messages[m].timestamp = before.messages[m].timestamp
       /\ messages[m].text = before.messages[m].text
       /\ messages[m].user_id = before.messages[m].user_id

C18_Witness ==
  /\ Sent("edit_profile", "ok")
  /\ users # before.users
  /\ \E m1, m2 \in DOMAIN messages :
       /\ m1 < m2
       /\ messages[m1].text # messages[m2].text
       /\ messages[m1].user_id = response.user

\* C19: a signup by a not-logged-in browser with a valid form whose username
\* and email no existing user has adds exactly one user, with that username
\* and email, leaves every existing user as it was, and leaves the browser
\* logged in as the new user.
C19_Signup ==
  LET d == response.data
      new == response.arg
  IN (/\ response.op = "signup" /\ response.user = None /\ response.form
      /\ ~TakenIn(before, d))
       => /\ response.outcome = "ok"
          /\ new \notin DOMAIN before.users
          /\ DOMAIN users = DOMAIN before.users \cup {new}
          /\ Cardinality(DOMAIN users) = Cardinality(DOMAIN before.users) + 1
          /\ \A u \in DOMAIN before.users : users[u] = before.users[u]
          /\ users[new].username = d.username
          /\ users[new].email = d.email
          /\ session[d.client] = new
          /\ g_user(d.client) = new

C19_Witness ==
  /\ Sent("signup", "ok")
  /\ DOMAIN before.users # {}
  /\ g_user(response.data.client) = response.arg

\* C20: every stored message has a non-empty text and an existing author; an
\* add_message request with an empty text or with no logged-in user is
\* rejected and leaves the messages table as it was; a valid one by logged-in
\* user U adds exactly one message, whose author is U.
C20_MessageCreate ==
  LET U == response.user
      d == response.data
      new == response.arg
  IN /\ \A m \in DOMAIN messages :
          /\ messages[m].text # ""
          /\ messages[m].user_id # None
          /\ messages[m].user_id \in DOMAIN users
     /\ response.op = "add_message"
          => /\ (U = None \/ d.text = "")
                  => /\ response.outcome \in {"access_unauthorized", "form"}
                     /\ messages = before.messages
             /\ (U # None /\ response.form)
                  => /\ response.outcome = "ok"
                     /\ new \notin DOMAIN before.messages
                     /\ DOMAIN messages = DOMAIN before.messages \cup {new}
                     /\ messages[new].user_id = U
                     /\ messages[new].text = d.text
                     /\ \A m \in DOMAIN before.messages :
                          messages[m] = before.messages[m]

C20_Witness ==
  /\ Sent("add_message", "form")
  /\ response.user # None
  /\ response.data.text = ""
  /\ DOMAIN messages # {}

\* C21: no reachable state holds a like row (U,m) on a message m whose author
\* is U: the likes a user contributes to their own messages are always 0.
C21_NoSelfLikeEdge ==
  /\ \A e \in BagToSet(likes) :
       e[2] \in DOMAIN messages => messages[e[2]].user_id # e[1]
  /\ \A u \in DOMAIN users : liked_messages(u) \cap user_messages(u) = {}

C21_Witness ==
  /\ Sent("like_message", "self_like")
  /\ \E e \in BagToSet(likes) : e[2] = response.arg /\ e[1] # response.user

\* C22: in every reachable state every like row names an existing user and
\* an existing message, every follow row names two existing users and every
\* message has an existing author; after a successful delete_message(m) no
\* like row names m and m is in no user's liked messages.
C22_ReferentialIntegrity ==
  /\ \A e \in BagToSet(likes) : e[1] \in DOMAIN users /\ e[2] \in DOMAIN messages
  /\ \A e \in BagToSet(follows) : e[1] \in DOMAIN users /\ e[2] \in DOMAIN users
  /\ \A m \in DOMAIN messages : messages[m].user_id \in DOMAIN users
  /\ Sent("delete_message", "ok")
       => /\ response.arg \notin DOMAIN messages
          /\ \A e \in BagToSet(likes) : e[2] # response.arg
          /\ \A u \in DOMAIN users : response.arg \notin liked_messages(u)

C22_Witness ==
  /\ Sent("delete_message", "ok")
  /\ \E e \in BagToSet(before.likes) : e[2] = response.arg

\* the number of (a,b) rows of follows table F
Copies(F, a, b) == IF BagIn(<<a, b>>, F) THEN CopiesIn(<<a, b>>, F) ELSE 0

\* C23: a successful follow(A,B) adds exactly the row (A,B): every other
\* follow row, (B,A) included, is present or absent as before, and users,
\* messages and likes stay as they were; a successful unfollow(A,B) removes
\* exactly the row (A,B) and leaves (B,A) and everything else as it was.
C23_FollowFrame ==
  LET A == response.user
      B == response.arg
      Pairs == BagToSet(follows) \cup BagToSet(before.follows) \cup {<<A, B>>, <<B, A>>}
      rest == /\ users = before.users
              /\ messages = before.messages
              /\ likes = before.likes
              /\ \A e \in Pairs \ {<<A, B>>} :
                   Copies(follows, e[1], e[2]) = Copies(before.follows, e[1], e[2])
  IN /\ Sent("start_following", "ok")
          => /\ Copies(follows, A, B) = Copies(before.follows, A, B) + 1
             /\ rest
     /\ Sent("stop_following", "ok")
          => /\ Copies(follows, A, B) = Copies(before.follows, A, B) - 1
             /\ rest

C23_Witness ==
  /\ Sent("stop_following", "ok")
  /\ response.user # response.arg
  /\ BagIn(<<response.arg, response.user>>, follows)
  /\ ~BagIn(<<response.user, response.arg>>, follows)

\* the request being answered names a user id (follow, unfollow) or a
\* message id (like, unlike, delete) that the request did not find stored
NamesMissingUser ==
  /\ response.op \in {"start_following", "stop_following"}
  /\ response.arg \notin DOMAIN before.users

NamesMissingMessage ==
  /\ response.op \in {"like_message", "unlike_message", "delete_message"}
  /\ response.arg \notin DOMAIN before.messages

\* C24: a follow, unfollow, like, unlike or delete-message request by a
\* logged-in user with a valid form that names an id not in the store is
\* answered not found, and users, messages, follows, likes and the session
\* stay as they were; like and unlike answer so whatever the form and caller.
C24_NotFound ==
  /\ (ByUser /\ (NamesMissingUser \/ NamesMissingMessage))
       => /\ response.outcome = "not_found"
          /\ TablesUnchanged
          /\ \A c \in Clients : g_user(c) = response.user
  /\ (NamesMissingMessage /\ response.op # "delete_message")
       => response.outcome = "not_found" /\ TablesUnchanged

C24_Witness ==
  /\ Sent("start_following", "not_found")
  /\ response.user # None
  /\ follows # EmptyBag

\* C25: when two follow(A,B) requests of two browsers of user A both pass the
\* membership test before either commits, the follows table ends with exactly
\* one (A,B) row and each request is answered with success or "already
\* following", never with an unhandled constraint error; likewise for two
\* like(U,m) requests and "already liked".
C25_InterleavedInserts ==
  /\ \A e \in BagToSet(follows) : CopiesIn(e, follows) = 1
  /\ \A e \in BagToSet(likes) : CopiesIn(e, likes) = 1
  /\ (response.op = "start_following" /\ ByUser
        /\ UserGet(response.arg) # None)
       => response.outcome \in {"ok", "already_following"}
  /\ (response.op = "like_message" /\ ByUser
        /\ MessageGet(response.arg) # None
        /\ ~own_message(response.user, response.arg))
       => response.outcome \in {"ok", "already_liked"}

\* the views that write a table on behalf of the logged-in user
MutatingOps ==
  {"start_following", "stop_following", "add_message", "delete_message",
   "like_message", "unlike_message", "edit_profile", "delete_user"}

\* the session of the request being answered named no user, or a user that
\* was no longer stored
SessionUserIn(st) == st.session[st.client]

NotLoggedIn ==
  \/ SessionUserIn(before) = None
  \/ SessionUserIn(before) \notin DOMAIN before.users

\* C26: a follow, unfollow, post, delete-message, like, unlike, edit-profile
\* or delete-user request of a session with no logged-in user leaves users,
\* messages, follows and likes unchanged and is answered unauthorized, or not
\* found when a like/unlike names a missing message.
C26_AnonymousMutation ==
  (response.op \in MutatingOps /\ NotLoggedIn)
    => /\ TablesUnchanged
       /\ IF /\ response.op \in {"like_message", "unlike_message"}
             /\ response.arg \notin DOMAIN before.messages
            THEN response.outcome = "not_found"
            ELSE response.outcome \in {"access_unauthorized", "unauthorized"}

C26_Witness ==
  /\ response.op = "delete_message"
  /\ SessionUserIn(before) = None
  /\ response.arg \in DOMAIN messages
  /\ response.form
  /\ response.outcome = "access_unauthorized"

\* C27: the current user of every request is absent or stored; a successful
\* delete_user logs the requesting session out; a session that still holds
\* the id of a deleted user is treated as not logged in (its mutating requests
\* change nothing and its homepage is the anonymous one); a logout leaves the
\* other sessions and all tables unchanged.
C27_SessionUser ==
  /\ response # NoResponse
       => response.user = None \/ response.user \in DOMAIN before.users
  /\ Sent("delete_user", "ok")
       => /\ session[before.client] = None
          /\ response.user \notin DOMAIN users
  /\ (response # NoResponse /\ SessionUserIn(before) # None
        /\ SessionUserIn(before) \notin DOMAIN before.users)
       => /\ response.user = None
          /\ response.op \in MutatingOps => TablesUnchanged
          /\ response.op = "homepage"
               => response.outcome = "home_anon" /\ response.body = <<>>
  /\ response.op = "logout"
       => /\ TablesUnchanged
          /\ \A b \in DOMAIN session \ {before.client} :
               session[b] = before.session[b]

\* a browser still holding the id of a deleted user asks for the homepage
C27_Witness ==
  /\ response.op = "homepage"
  /\ SessionUserIn(before) # None
  /\ SessionUserIn(before) \notin DOMAIN before.users
  /\ \E b \in DOMAIN session : session[b] = None

====
